---- MODULE Spec2Model ----
(***************************************************************************)
(* volumepad firmware (src/main.c): per-switch debouncing and long-press   *)
(* detection, switch action dispatch, quadrature dial decoding, the HID    *)
(* key buffers, and the timer interrupt / main loop hand-off.              *)
(***************************************************************************)
EXTENDS Integers, Sequences, FiniteSets, TLC

VARIABLES
    scenario,                 \* the environment and the SwitchAction table explored
    switch_debounce_states,   \* PinState[7]: [state, count]
    debounced_switches,       \* uint8_t bit field, 1 = not pressed
    long_press_switches,      \* uint8_t bit field, 0 = long-pressed
    last_pressed_keys,        \* run(): debounced_switches at the previous pass
    last_long_pressed_keys,   \* run(): long_press_switches at the previous pass
    dial_moving,
    dial_position,
    dial_direction,
    dial_log,                 \* the dial after each of the latest 3 passes
    keyboard_modifier_keys,   \* modifier bit mask of the keyboard report
    keyboard_keys,            \* the 6 slots of the keyboard report
    media_keys,               \* the 4 slots of the media report
    sent,                     \* send_keys calls of the latest pass / request, in order
    usb_sends,                \* usb_keyboard_send / usb_media_send calls of that pass
    events,                   \* per switch: its send_keys calls since its latest press from rest
    raw_runs,                 \* per watched switch: pressed snapshots and runs since then
    dropped,                  \* a press made by a pass has found its buffer full
    pc,                       \* main loop position
    int_enabled,              \* global interrupt enable (cli / sei)
    _timer0_fired,            \* shared with the ISR
    _raw_switches_state,      \* shared with the ISR
    timer0_fired,             \* run(): local copy
    raw_switches_state,       \* run(): local copy
    firings,                  \* number of ISR executions
    passes,                   \* number of tick-processing passes
    coalesced                 \* ISR executions that found _timer0_fired already set

vars == << scenario, switch_debounce_states, debounced_switches,
           long_press_switches, last_pressed_keys, last_long_pressed_keys,
           dial_moving, dial_position, dial_direction, dial_log,
           keyboard_modifier_keys, keyboard_keys, media_keys, sent, usb_sends,
           events, raw_runs, dropped, pc, int_enabled,
           _timer0_fired, _raw_switches_state, timer0_fired, raw_switches_state,
           firings, passes, coalesced >>

envVars == << scenario >>
tickVars == << switch_debounce_states, debounced_switches, long_press_switches,
               last_pressed_keys, last_long_pressed_keys, dial_moving,
               dial_position, dial_direction, dial_log, events, raw_runs,
               dropped >>
keyVars == << keyboard_modifier_keys, keyboard_keys, media_keys >>
loopVars == << pc, int_enabled, _timer0_fired, _raw_switches_state, timer0_fired,
               raw_switches_state, firings, passes, coalesced >>

(***************************************************************************)
(* Bounds of the model                                                     *)
(***************************************************************************)
LongHorizon == 328    \* ticks explored where long presses matter
ShortHorizon == 10    \* ticks explored with two lines varying
DialHorizon == 12     \* ticks explored with the two dial lines varying
NullHorizon == 12     \* ticks explored with the long-press-only table
MaxNullCodes == 2     \* distinct key codes a read through a null pointer can show
StuckHorizon == 13    \* ticks explored with S2 and four switches varying
RestHorizon == 16     \* ticks explored with the dial at rest
ChordHorizon == 8     \* ticks explored with the dial lines and four switches varying
LogLen == 3           \* passes of which the dial is recorded
MaxFirings == 4       \* ISR executions explored in the interrupt specification
MaxStdCodes == 7      \* distinct standard key codes requested directly
MaxMediaCodes == 5    \* distinct media key codes requested directly

(***************************************************************************)
(* Constants of the program                                                *)
(***************************************************************************)
NumSwitches == 7
KeyboardSlots == 6
MediaSlots == 4
NoFreeIndex == 255
MediaFlag == 4096
MODIFIER_KEYS_START == 224
MODIFIER_KEYS_END == 231
KEY_RIGHT_GUI == 231
LongPressTime == 160
DebounceTickLimit == 3
DialA == 1
DialB == 5
DirectionCCW == 0
DirectionCW == 1
AllReleased == 127

MediaKey(scancode) == MediaFlag + (scancode % MediaFlag)
IsMediaKey(scancode) == (scancode \div MediaFlag) % 2 = 1

KEY_VOLUME_UP == MediaKey(233)
KEY_VOLUME_DOWN == MediaKey(234)
KEY_SLEEP == MediaKey(50)
KEY_PLAYPAUSE == MediaKey(205)
KEY_PREV == MediaKey(182)
KEY_NEXT == MediaKey(181)
KEY_WWWHOME == MediaKey(547)
KEY_WWWSEARCH == MediaKey(545)

(***************************************************************************)
(* Bit fields                                                              *)
(***************************************************************************)
Pow2(i) == 2 ^ i
\* (x >> i) & 0x01
Bit(x, i) == (x \div Pow2(i)) % 2
\* x &= ~(0x01 << i)
ClearBit(x, i) == x - Bit(x, i) * Pow2(i)
\* x |= (v << i), v in {0, 1}
OrBit(x, i, v) == IF v = 1 /\ Bit(x, i) = 0 THEN x + Pow2(i) ELSE x
\* a ^ b on 7-bit fields
RECURSIVE XorFrom(_, _, _)
XorFrom(a, b, i) ==
    IF i = NumSwitches THEN 0
    ELSE (IF Bit(a, i) # Bit(b, i) THEN Pow2(i) ELSE 0) + XorFrom(a, b, i + 1)
Xor(a, b) == XorFrom(a, b, 0)

Switches == 0 .. (NumSwitches - 1)

(***************************************************************************)
(* Key lists.  A key array pointer is either NULL or a 0-terminated array. *)
(***************************************************************************)
NULL == [null |-> TRUE, keys |-> << >>]
Keys(list) == [null |-> FALSE, keys |-> list]

SwitchActionMap == [i \in Switches |->
    CASE i = 0 -> [press_keys |-> Keys(<< KEY_WWWHOME, 0 >>),
                   long_press_keys |-> Keys(<< KEY_WWWSEARCH, 0 >>)]
      [] i = 2 -> [press_keys |-> Keys(<< KEY_SLEEP, 0 >>), long_press_keys |-> NULL]
      [] i = 3 -> [press_keys |-> Keys(<< KEY_PREV, 0 >>), long_press_keys |-> NULL]
      [] i = 4 -> [press_keys |-> Keys(<< KEY_PLAYPAUSE, 0 >>), long_press_keys |-> NULL]
      [] i = 6 -> [press_keys |-> Keys(<< KEY_NEXT, 0 >>), long_press_keys |-> NULL]
      [] OTHER -> [press_keys |-> NULL, long_press_keys |-> NULL]]

\* A table in which two simple-hold switches (S1 and S5) send the same key.
SharedKeyMap == [SwitchActionMap EXCEPT
    ![3] = [press_keys |-> Keys(<< KEY_SLEEP, 0 >>), long_press_keys |-> NULL]]

\* A table in which S2 has long-press keys and no short-press keys.
LongOnlyMap == [SwitchActionMap EXCEPT
    ![0] = [press_keys |-> NULL, long_press_keys |-> Keys(<< KEY_WWWSEARCH, 0 >>)]]

DialCCWKeys == Keys(<< KEY_VOLUME_DOWN, 0 >>)
DialCWKeys == Keys(<< KEY_VOLUME_UP, 0 >>)

(***************************************************************************)
(* update_debounced_state                                                  *)
(***************************************************************************)
\* Faulty variant: a committed release leaves the long-press bit as it is.
DebounceSwitch_KeepLong(d, i, key_val) ==
    LET p == d.sds[i] IN
    IF key_val # p.state
    THEN [d EXCEPT !.sds[i] = [state |-> key_val, count |-> 0]]
    ELSE IF p.count < LongPressTime
    THEN LET c == p.count + 1
             deb1 == IF c = DebounceTickLimit
                     THEN OrBit(ClearBit(d.deb, i), i, key_val)
                     ELSE d.deb
             lp2 == IF c = LongPressTime /\ key_val = 0
                    THEN ClearBit(d.lp, i)
                    ELSE d.lp
         IN [sds |-> [d.sds EXCEPT ![i] = [state |-> p.state, count |-> c]],
             deb |-> deb1, lp |-> lp2]
    ELSE d

\* Faulty variant: the level is committed one tick early.
DebounceSwitch_Early(d, i, key_val) ==
    LET p == d.sds[i] IN
    IF key_val # p.state
    THEN [d EXCEPT !.sds[i] = [state |-> key_val, count |-> 0]]
    ELSE IF p.count < LongPressTime
    THEN LET c == p.count + 1
             deb1 == IF c = DebounceTickLimit - 1
                     THEN OrBit(ClearBit(d.deb, i), i, key_val)
                     ELSE d.deb
             lp1 == IF c = DebounceTickLimit - 1 /\ key_val = 1
                    THEN OrBit(d.lp, i, key_val)
                    ELSE d.lp
             lp2 == IF c = LongPressTime /\ key_val = 0
                    THEN ClearBit(lp1, i)
                    ELSE lp1
         IN [sds |-> [d.sds EXCEPT ![i] = [state |-> p.state, count |-> c]],
             deb |-> deb1, lp |-> lp2]
    ELSE d

\* Faulty variant: the count goes on past LongPressTime.
DebounceSwitch_NoSaturation(d, i, key_val) ==
    LET p == d.sds[i] IN
    IF key_val # p.state
    THEN [d EXCEPT !.sds[i] = [state |-> key_val, count |-> 0]]
    ELSE LET c == p.count + 1
             deb1 == IF c = DebounceTickLimit
                     THEN OrBit(ClearBit(d.deb, i), i, key_val)
                     ELSE d.deb
             lp1 == IF c = DebounceTickLimit /\ key_val = 1
                    THEN OrBit(d.lp, i, key_val)
                    ELSE d.lp
             lp2 == IF c = LongPressTime /\ key_val = 0
                    THEN ClearBit(lp1, i)
                    ELSE lp1
         IN [sds |-> [d.sds EXCEPT ![i] = [state |-> p.state, count |-> c]],
             deb |-> deb1, lp |-> lp2]

\* Faulty variant: the snapshot that first shows a level counts as the first
\* of the DebounceTickLimit.
DebounceSwitch_CountFirst(d, i, key_val) ==
    LET p == d.sds[i] IN
    IF key_val # p.state
    THEN [d EXCEPT !.sds[i] = [state |-> key_val, count |-> 1]]
    ELSE IF p.count < LongPressTime
    THEN LET c == p.count + 1
             deb1 == IF c = DebounceTickLimit
                     THEN OrBit(ClearBit(d.deb, i), i, key_val)
                     ELSE d.deb
             lp1 == IF c = DebounceTickLimit /\ key_val = 1
                    THEN OrBit(d.lp, i, key_val)
                    ELSE d.lp
             lp2 == IF c = LongPressTime /\ key_val = 0
                    THEN ClearBit(lp1, i)
                    ELSE lp1
         IN [sds |-> [d.sds EXCEPT ![i] = [state |-> p.state, count |-> c]],
             deb |-> deb1, lp |-> lp2]
    ELSE d

\* One iteration of the loop, for switch i.  d = [sds, deb, lp].
DebounceSwitch(d, i, key_val) ==
    LET p == d.sds[i] IN
    IF key_val # p.state
    THEN [d EXCEPT !.sds[i] = [state |-> key_val, count |-> 0]]
    ELSE IF p.count < LongPressTime
    THEN LET c == p.count + 1
             deb1 == IF c = DebounceTickLimit
                     THEN OrBit(ClearBit(d.deb, i), i, key_val)
                     ELSE d.deb
             lp1 == IF c = DebounceTickLimit /\ key_val = 1
                    THEN OrBit(d.lp, i, key_val)
                    ELSE d.lp
             lp2 == IF c = LongPressTime /\ key_val = 0
                    THEN ClearBit(lp1, i)
                    ELSE lp1
         IN [sds |-> [d.sds EXCEPT ![i] = [state |-> p.state, count |-> c]],
             deb |-> deb1, lp |-> lp2]
    ELSE d

RECURSIVE DebounceFrom(_, _, _)
DebounceFrom(d, i, raw) ==
    IF i = NumSwitches THEN d
    ELSE CHOOSE r \in { DebounceFrom(DebounceSwitch(v, i, Bit(raw, i)), i + 1, raw) :
                        v \in {d} } : TRUE

update_debounced_state(d, raw) == DebounceFrom(d, 0, raw)

(***************************************************************************)
(* Key buffers: media_key_change, basic_key_change, send_keys              *)
(***************************************************************************)
\* The slot scan shared by both functions: s = [buf, free].  A press of a
\* key already present stops the scan with free = 255; a release clears
\* every matching slot; a press remembers the first empty slot.
ScanSlot(s, key, newstate, i) ==
    LET buf1 == IF s.buf[i] = key THEN [s.buf EXCEPT ![i] = 0] ELSE s.buf
        free1 == IF newstate # 0 /\ buf1[i] = 0 /\ s.free = NoFreeIndex
                 THEN i ELSE s.free
    IN [buf |-> buf1, free |-> free1]

RECURSIVE ScanSlots(_, _, _, _, _)
ScanSlots(s, n, key, newstate, i) ==
    IF i = n THEN s
    ELSE CHOOSE r \in { IF v.buf[i] = key /\ newstate # 0
                        THEN [v EXCEPT !.free = NoFreeIndex]
                        ELSE ScanSlots(ScanSlot(v, key, newstate, i), n, key, newstate, i + 1) :
                        v \in {s} } : TRUE

\* Faulty variant: a press that finds no empty slot takes slot 0.
media_key_change_Overwrite(buf, key, newstate) ==
    LET s == ScanSlots([buf |-> buf, free |-> NoFreeIndex], MediaSlots, key, newstate, 0)
        present == \E i \in 0 .. (MediaSlots - 1) : buf[i] = key
    IN IF newstate # 0 /\ s.free < 4
       THEN [s.buf EXCEPT ![s.free] = key]
       ELSE IF newstate # 0 /\ ~present
       THEN [s.buf EXCEPT ![0] = key]
       ELSE s.buf

\* Faulty variant: a press takes the first empty slot without looking for the
\* key in the other slots.
media_key_change_NoDedupe(buf, key, newstate) ==
    LET s == ScanSlots([buf |-> buf, free |-> NoFreeIndex], MediaSlots, key, newstate, 0)
        empty == { i \in 0 .. (MediaSlots - 1) : buf[i] = 0 }
    IN IF newstate # 0
       THEN IF empty # {}
            THEN [buf EXCEPT ![CHOOSE i \in empty : \A j \in empty : i <= j] = key]
            ELSE buf
       ELSE s.buf

\* Faulty variant: a release leaves the slots as they are.
media_key_change_NoRelease(buf, key, newstate) ==
    LET s == ScanSlots([buf |-> buf, free |-> NoFreeIndex], MediaSlots, key, newstate, 0)
    IN IF newstate # 0 /\ s.free < 4
       THEN [s.buf EXCEPT ![s.free] = key]
       ELSE buf

media_key_change(buf, key, newstate) ==
    LET s == ScanSlots([buf |-> buf, free |-> NoFreeIndex], MediaSlots, key, newstate, 0)
    IN IF newstate # 0 /\ s.free < 4
       THEN [s.buf EXCEPT ![s.free] = key]
       ELSE s.buf

\* k = [mod, kb, media, usb]
basic_key_change(k, key, newstate) ==
    IF key >= MODIFIER_KEYS_START /\ key <= MODIFIER_KEYS_END
    THEN LET affected_field == key % 8
             mask == IF newstate # 0 THEN 1 ELSE 0
         IN [k EXCEPT !.mod = OrBit(ClearBit(k.mod, affected_field), affected_field, mask)]
    ELSE LET s == ScanSlots([buf |-> k.kb, free |-> NoFreeIndex], KeyboardSlots,
                            key, newstate, 0)
         IN IF newstate # 0 /\ s.free < 4
            THEN [k EXCEPT !.kb = [s.buf EXCEPT ![s.free] = key]]
            ELSE [k EXCEPT !.kb = s.buf]

\* The body of the loop of send_keys, for one encoded key.
key_change(k, encoded_key, pressed) ==
    IF IsMediaKey(encoded_key)
    THEN [k EXCEPT !.media = media_key_change(k.media, encoded_key % 4096, pressed)]
    ELSE basic_key_change(k, encoded_key % 256, pressed)

\* The loop of send_keys over a 0-terminated array, from index i (1-based).
RECURSIVE SendFrom(_, _, _, _)
SendFrom(k, list, pressed, i) ==
    IF list[i] = 0 THEN k
    ELSE CHOOSE r \in { SendFrom(key_change(v, list[i], pressed), list, pressed, i + 1) :
                        v \in {k} } : TRUE

\* Faulty variant: the media report is sent only when the call has changed it.
send_keys_MediaIfChanged(k, b) ==
    LET r == SendFrom(k, b.keys.keys, b.pressed, 1)
    IN [r EXCEPT !.usb = [keyboard |-> @.keyboard + 1,
                          media |-> IF r.media # k.media THEN @.media + 1 ELSE @.media]]

\* One call: b = [keys, pressed].  Every call ends with usb_keyboard_send and
\* usb_media_send, counted in k.usb.
send_keys(k, b) ==
    LET r == SendFrom(k, b.keys.keys, b.pressed, 1)
    IN [r EXCEPT !.usb = [keyboard |-> @.keyboard + 1, media |-> @.media + 1]]

NoSends == [keyboard |-> 0, media |-> 0]

press_keys(keys) == [keys |-> keys, pressed |-> 1]
release_keys(keys) == [keys |-> keys, pressed |-> 0]

\* send_keys(NULL, ...) reads keys[0], keys[1], ... from address 0 on, where no
\* array is: the loop sees whatever words are there, an immediate 0 or some
\* key codes and then a 0.
NullCodes == (1 .. (MaxNullCodes - 1)) \cup { MediaKey(MaxNullCodes) }
NullReads == { << 0 >> } \cup { << c, 0 >> : c \in NullCodes }
\* The calls of a pass with the arrays their loops read: reads gives, for each
\* call made with a null pointer, the words that call finds.
NullCalls(batches) == { n \in 1 .. Len(batches) : batches[n].keys.null }
Dereference(batches, reads) ==
    [n \in 1 .. Len(batches) |->
        IF batches[n].keys.null
        THEN [batches[n] EXCEPT !.keys.keys = reads[n]]
        ELSE batches[n]]

RECURSIVE SendAll(_, _, _)
SendAll(k, batches, i) ==
    IF i > Len(batches) THEN k
    ELSE CHOOSE r \in { SendAll(send_keys(v, batches[i]), batches, i + 1) : v \in {k} } : TRUE

(***************************************************************************)
(* run(): the switch loop and the dial, one pass                           *)
(***************************************************************************)
\* Faulty variant: a released switch without long-press keys releases nothing.
SwitchBatches_NoRelease(map, i, deb, lp, changed_keys, changed_long_keys) ==
    LET action_keys == map[i].press_keys
        action_long_keys == map[i].long_press_keys
        newly == IF Bit(deb, i) = 0 /\ Bit(changed_keys, i) = 1
                    /\ action_long_keys.null /\ ~action_keys.null
                 THEN << press_keys(action_keys) >> ELSE << >>
        long == IF Bit(lp, i) = 0 /\ Bit(changed_long_keys, i) = 1
                   /\ ~action_long_keys.null
                THEN << press_keys(action_long_keys) >> ELSE << >>
        released ==
            IF Bit(deb, i) = 1 /\ Bit(changed_keys, i) = 1 /\ ~action_long_keys.null
            THEN IF Bit(lp, i) = 1 /\ Bit(changed_long_keys, i) = 1
                 THEN << release_keys(action_long_keys) >>
                 ELSE << press_keys(action_keys), release_keys(action_keys) >>
            ELSE << >>
    IN newly \o long \o released

\* Faulty variant: a newly pressed switch presses its short-press keys even
\* when it has long-press keys.
SwitchBatches_PressAtOnce(map, i, deb, lp, changed_keys, changed_long_keys) ==
    LET action_keys == map[i].press_keys
        action_long_keys == map[i].long_press_keys
        newly == IF Bit(deb, i) = 0 /\ Bit(changed_keys, i) = 1 /\ ~action_keys.null
                 THEN << press_keys(action_keys) >> ELSE << >>
        long == IF Bit(lp, i) = 0 /\ Bit(changed_long_keys, i) = 1
                   /\ ~action_long_keys.null
                THEN << press_keys(action_long_keys) >> ELSE << >>
        released ==
            IF Bit(deb, i) = 1 /\ Bit(changed_keys, i) = 1
            THEN IF ~action_long_keys.null
                 THEN IF Bit(lp, i) = 1 /\ Bit(changed_long_keys, i) = 1
                      THEN << release_keys(action_long_keys) >>
                      ELSE << press_keys(action_keys), release_keys(action_keys) >>
                 ELSE IF ~action_keys.null
                      THEN << release_keys(action_keys) >>
                      ELSE << >>
            ELSE << >>
    IN newly \o long \o released

\* Faulty variant: a release after a long press is handled as a quick release.
SwitchBatches_TapOnRelease(map, i, deb, lp, changed_keys, changed_long_keys) ==
    LET action_keys == map[i].press_keys
        action_long_keys == map[i].long_press_keys
        newly == IF Bit(deb, i) = 0 /\ Bit(changed_keys, i) = 1
                    /\ action_long_keys.null /\ ~action_keys.null
                 THEN << press_keys(action_keys) >> ELSE << >>
        long == IF Bit(lp, i) = 0 /\ Bit(changed_long_keys, i) = 1
                   /\ ~action_long_keys.null
                THEN << press_keys(action_long_keys) >> ELSE << >>
        released ==
            IF Bit(deb, i) = 1 /\ Bit(changed_keys, i) = 1
            THEN IF ~action_long_keys.null
                 THEN << press_keys(action_keys), release_keys(action_keys) >>
                 ELSE IF ~action_keys.null
                      THEN << release_keys(action_keys) >>
                      ELSE << >>
            ELSE << >>
    IN newly \o long \o released

\* Faulty variant: a quick release presses the short-press keys and leaves
\* them pressed.
SwitchBatches_TapHolds(map, i, deb, lp, changed_keys, changed_long_keys) ==
    LET action_keys == map[i].press_keys
        action_long_keys == map[i].long_press_keys
        newly == IF Bit(deb, i) = 0 /\ Bit(changed_keys, i) = 1
                    /\ action_long_keys.null /\ ~action_keys.null
                 THEN << press_keys(action_keys) >> ELSE << >>
        long == IF Bit(lp, i) = 0 /\ Bit(changed_long_keys, i) = 1
                   /\ ~action_long_keys.null
                THEN << press_keys(action_long_keys) >> ELSE << >>
        released ==
            IF Bit(deb, i) = 1 /\ Bit(changed_keys, i) = 1
            THEN IF ~action_long_keys.null
                 THEN IF Bit(lp, i) = 1 /\ Bit(changed_long_keys, i) = 1
                      THEN << release_keys(action_long_keys) >>
                      ELSE << press_keys(action_keys) >>
                 ELSE IF ~action_keys.null
                      THEN << release_keys(action_keys) >>
                      ELSE << >>
            ELSE << >>
    IN newly \o long \o released

\* The send_keys calls made for switch i in one pass, in order.
SwitchBatches(map, i, deb, lp, changed_keys, changed_long_keys) ==
    LET action_keys == map[i].press_keys
        action_long_keys == map[i].long_press_keys
        newly == IF Bit(deb, i) = 0 /\ Bit(changed_keys, i) = 1
                    /\ action_long_keys.null /\ ~action_keys.null
                 THEN << press_keys(action_keys) >> ELSE << >>
        long == IF Bit(lp, i) = 0 /\ Bit(changed_long_keys, i) = 1
                   /\ ~action_long_keys.null
                THEN << press_keys(action_long_keys) >> ELSE << >>
        released ==
            IF Bit(deb, i) = 1 /\ Bit(changed_keys, i) = 1
            THEN IF ~action_long_keys.null
                 THEN IF Bit(lp, i) = 1 /\ Bit(changed_long_keys, i) = 1
                      THEN << release_keys(action_long_keys) >>
                      ELSE << press_keys(action_keys), release_keys(action_keys) >>
                 ELSE IF ~action_keys.null
                      THEN << release_keys(action_keys) >>
                      ELSE << >>
            ELSE << >>
    IN newly \o long \o released

\* Concatenation of the calls of switches i .. 6, given the calls per switch.
RECURSIVE Concat(_, _)
Concat(per, i) == IF i = NumSwitches THEN << >> ELSE per[i] \o Concat(per, i + 1)

\* Faulty variant: a completed detent leaves the settled position as it is.
DialStep_KeepPosition(deb, moving, position, direction) ==
    LET a == Bit(deb, DialA)
        b == Bit(deb, DialB)
    IN IF a # b
       THEN [moving |-> 1, position |-> position,
             direction |-> IF a # position THEN DirectionCW ELSE DirectionCCW,
             batches |-> << >>]
       ELSE IF moving # 0
       THEN IF a # position
            THEN [moving |-> 0, position |-> position, direction |-> direction,
                  batches |-> IF direction = DirectionCW
                              THEN << press_keys(DialCWKeys), release_keys(DialCWKeys) >>
                              ELSE << press_keys(DialCCWKeys), release_keys(DialCCWKeys) >>]
            ELSE [moving |-> 0, position |-> position, direction |-> direction,
                  batches |-> << >>]
       ELSE IF a # position
       THEN [moving |-> moving, position |-> a, direction |-> direction,
             batches |-> << >>]
       ELSE [moving |-> moving, position |-> position, direction |-> direction,
             batches |-> << >>]

\* Faulty variant: a rotation presses its keys and leaves them pressed.
DialStep_Hold(deb, moving, position, direction) ==
    LET a == Bit(deb, DialA)
        b == Bit(deb, DialB)
    IN IF a # b
       THEN [moving |-> 1, position |-> position,
             direction |-> IF a # position THEN DirectionCW ELSE DirectionCCW,
             batches |-> << >>]
       ELSE IF moving # 0
       THEN IF a # position
            THEN [moving |-> 0, position |-> a, direction |-> direction,
                  batches |-> IF direction = DirectionCW
                              THEN << press_keys(DialCWKeys) >>
                              ELSE << press_keys(DialCCWKeys) >>]
            ELSE [moving |-> 0, position |-> position, direction |-> direction,
                  batches |-> << >>]
       ELSE IF a # position
       THEN [moving |-> moving, position |-> a, direction |-> direction,
             batches |-> << >>]
       ELSE [moving |-> moving, position |-> position, direction |-> direction,
             batches |-> << >>]

\* Faulty variant: a return to the settled position makes a rotation event.
DialStep_BounceEmits(deb, moving, position, direction) ==
    LET a == Bit(deb, DialA)
        b == Bit(deb, DialB)
    IN IF a # b
       THEN [moving |-> 1, position |-> position,
             direction |-> IF a # position THEN DirectionCW ELSE DirectionCCW,
             batches |-> << >>]
       ELSE IF moving # 0
       THEN IF a # position
            THEN [moving |-> 0, position |-> a, direction |-> direction,
                  batches |-> IF direction = DirectionCW
                              THEN << press_keys(DialCWKeys), release_keys(DialCWKeys) >>
                              ELSE << press_keys(DialCCWKeys), release_keys(DialCCWKeys) >>]
            ELSE [moving |-> 0, position |-> position, direction |-> direction,
                  batches |-> << press_keys(DialCCWKeys), release_keys(DialCCWKeys) >>]
       ELSE IF a # position
       THEN [moving |-> moving, position |-> a, direction |-> direction,
             batches |-> << >>]
       ELSE [moving |-> moving, position |-> position, direction |-> direction,
             batches |-> << >>]

\* Faulty variant: a resynchronisation while not moving makes a rotation event.
DialStep_ResyncEmits(deb, moving, position, direction) ==
    LET a == Bit(deb, DialA)
        b == Bit(deb, DialB)
    IN IF a # b
       THEN [moving |-> 1, position |-> position,
             direction |-> IF a # position THEN DirectionCW ELSE DirectionCCW,
             batches |-> << >>]
       ELSE IF moving # 0
       THEN IF a # position
            THEN [moving |-> 0, position |-> a, direction |-> direction,
                  batches |-> IF direction = DirectionCW
                              THEN << press_keys(DialCWKeys), release_keys(DialCWKeys) >>
                              ELSE << press_keys(DialCCWKeys), release_keys(DialCCWKeys) >>]
            ELSE [moving |-> 0, position |-> position, direction |-> direction,
                  batches |-> << >>]
       ELSE IF a # position
       THEN [moving |-> moving, position |-> a, direction |-> direction,
             batches |-> << press_keys(DialCWKeys), release_keys(DialCWKeys) >>]
       ELSE [moving |-> moving, position |-> position, direction |-> direction,
             batches |-> << >>]

\* The dial: [moving, position, direction, batches]
DialStep(deb, moving, position, direction) ==
    LET a == Bit(deb, DialA)
        b == Bit(deb, DialB)
    IN IF a # b
       THEN [moving |-> 1, position |-> position,
             direction |-> IF a # position THEN DirectionCW ELSE DirectionCCW,
             batches |-> << >>]
       ELSE IF moving # 0
       THEN IF a # position
            THEN [moving |-> 0, position |-> a, direction |-> direction,
                  batches |-> IF direction = DirectionCW
                              THEN << press_keys(DialCWKeys), release_keys(DialCWKeys) >>
                              ELSE << press_keys(DialCCWKeys), release_keys(DialCCWKeys) >>]
            ELSE [moving |-> 0, position |-> position, direction |-> direction,
                  batches |-> << >>]
       ELSE IF a # position
       THEN [moving |-> moving, position |-> a, direction |-> direction,
             batches |-> << >>]
       ELSE [moving |-> moving, position |-> position, direction |-> direction,
             batches |-> << >>]

(***************************************************************************)
(* Environment: the raw snapshots PINB & 0x7f can show                     *)
(***************************************************************************)
\* The snapshots in which only the given lines may read 0 (pressed); the other
\* lines stay at the pull-up level.
Snapshots(lines) ==
    { r \in 0 .. AllReleased : \A i \in Switches : i \notin lines => Bit(r, i) = 1 }
SnapshotsS2 == Snapshots({0})
SnapshotsS1 == Snapshots({2})
SnapshotsS1S5 == Snapshots({2, 3})
SnapshotsDial == Snapshots({DialA, DialB})
\* S1, S5, S4 and S3, the simple-hold switches, pressed and released
\* together, and the given lines.
Chord == {2, 3, 4, 6}
ChordSnapshots(lines) ==
    { r \in Snapshots(lines \cup Chord) : \A i, j \in Chord : Bit(r, i) = Bit(r, j) }
SnapshotsDialChord == ChordSnapshots({DialA, DialB})
SnapshotsS2Chord == ChordSnapshots({0})
\* The dial resting at the detent where A and B both read 0, S1 varying.
SnapshotsRestLow == { r - Pow2(DialA) - Pow2(DialB) : r \in SnapshotsS1 }

\* The encoded keys requested directly in the key-buffer scenarios.
StdCodes == 1 .. MaxStdCodes
ModCodes == { KEY_RIGHT_GUI }
MediaCodes == { MediaKey(c) : c \in 1 .. MaxMediaCodes }

\* What a scenario fixes: the table in use, the raw snapshots PINB & 0x7f can
\* show, the number of ticks explored, the encoded keys requested directly
\* and the switches whose raw line is recorded.
action_map ==
    CASE scenario = "shared_key" -> SharedKeyMap
      [] scenario = "long_only" -> LongOnlyMap
      [] OTHER -> SwitchActionMap
snapshots ==
    CASE scenario \in {"long_press", "long_only"} -> SnapshotsS2
      [] scenario \in {"two_switches", "shared_key"} -> SnapshotsS1S5
      [] scenario \in {"interrupt", "rest_high"} -> SnapshotsS1
      [] scenario = "rest_low" -> SnapshotsRestLow
      [] scenario = "dial" -> SnapshotsDial
      [] scenario = "dial_chord" -> SnapshotsDialChord
      [] scenario = "chord" -> SnapshotsS2Chord
      [] OTHER -> {AllReleased}
horizon ==
    CASE scenario = "long_press" -> LongHorizon
      [] scenario \in {"two_switches", "shared_key"} -> ShortHorizon
      [] scenario = "dial" -> DialHorizon
      [] scenario = "long_only" -> NullHorizon
      [] scenario = "dial_chord" -> ChordHorizon
      [] scenario \in {"rest_low", "rest_high"} -> RestHorizon
      [] scenario = "chord" -> StuckHorizon
      [] OTHER -> 0
codes ==
    CASE scenario = "keyboard" -> StdCodes \cup ModCodes
      [] scenario = "media" -> MediaCodes
      [] OTHER -> {}
watch == IF scenario \in {"two_switches", "shared_key", "interrupt"} THEN {2} ELSE {}

\* A switch rests released: its line has read 1 for the debounce time.
Rested(i) ==
    /\ switch_debounce_states[i].state = 1
    /\ switch_debounce_states[i].count >= DebounceTickLimit
    /\ Bit(debounced_switches, i) = 1

\* A snapshot that shows a rested switch pressed starts a new record of the
\* switch in events and raw_runs.
Starts(i, key_val) == Rested(i) /\ key_val = 0

\* The raw line of switch i since that snapshot: the number of snapshots that
\* showed it pressed (counted up to HeldCap) and the number of separate
\* pressed runs (counted up to 2); and the level of the latest snapshot with
\* the number of consecutive snapshots that showed it (counted up to HeldCap).
HeldCap == DebounceTickLimit + 2
NoSnapshot == [held |-> 0, runs |-> 0, level |-> -1, same |-> 0]
ObserveRaw(i, key_val) ==
    LET r == raw_runs[i]
        o == IF Starts(i, key_val) THEN [held |-> 0, runs |-> 0] ELSE r
        starts == key_val = 0 /\ switch_debounce_states[i].state = 1
    IN [held |-> IF key_val = 0 /\ o.held < HeldCap THEN o.held + 1 ELSE o.held,
        runs |-> IF starts /\ o.runs < 2 THEN o.runs + 1 ELSE o.runs,
        level |-> key_val,
        same |-> IF key_val # r.level THEN 1
                 ELSE IF r.same < HeldCap THEN r.same + 1 ELSE r.same]

\* A key of a 0-terminated array is a standard or media key that is in
\* neither buffer of k.
Missing(k, list) ==
    \E n \in 1 .. Len(list) :
        /\ list[n] # 0
        /\ IF IsMediaKey(list[n])
           THEN \A s \in 0 .. (MediaSlots - 1) : k.media[s] # list[n] % 4096
           ELSE /\ ~(list[n] % 256 >= MODIFIER_KEYS_START /\ list[n] % 256 <= MODIFIER_KEYS_END)
                /\ \A s \in 0 .. (KeyboardSlots - 1) : k.kb[s] # list[n] % 256
\* One of the calls i, i + 1, ... of a pass is a press that leaves a key of
\* its list out of the buffers.
RECURSIVE DropsFrom(_, _, _)
DropsFrom(k, batches, i) ==
    IF i > Len(batches) THEN FALSE
    ELSE \E after \in { send_keys(k, batches[i]) } :
            \/ batches[i].pressed = 1 /\ Missing(after, batches[i].keys.keys)
            \/ DropsFrom(after, batches, i + 1)

\* The dial as a pass leaves it, with the rotation calls the pass made,
\* appended to the record of the latest LogLen passes.
LogDial(deb, dial) ==
    LET entry == [a |-> Bit(deb, DialA), b |-> Bit(deb, DialB),
                  moving |-> dial.moving, position |-> dial.position,
                  rotations |-> dial.batches]
        log == dial_log \o << entry >>
    IN IF Len(log) > LogLen THEN Tail(log) ELSE log

\* The body of "if (timer0_fired) { ... }" for one snapshot.
ProcessPass(raw) ==
    \E d \in { update_debounced_state([sds |-> switch_debounce_states,
                                       deb |-> debounced_switches,
                                       lp |-> long_press_switches], raw) } :
    \E changed_keys \in { Xor(last_pressed_keys, d.deb) } :
    \E changed_long_keys \in { Xor(last_long_pressed_keys, d.lp) } :
    \E per \in { [i \in Switches |-> SwitchBatches(action_map, i, d.deb, d.lp,
                                                   changed_keys, changed_long_keys)] } :
    \E dial \in { DialStep(d.deb, dial_moving, dial_position, dial_direction) } :
    \E batches \in { Concat(per, 0) \o dial.batches } :
    \E reads \in [NullCalls(batches) -> NullReads] :
    \E k0 \in { [mod |-> keyboard_modifier_keys, kb |-> keyboard_keys,
                 media |-> media_keys, usb |-> NoSends] } :
    \E calls \in { Dereference(batches, reads) } :
    \E k \in { SendAll(k0, calls, 1) } :
       /\ switch_debounce_states' = d.sds
       /\ debounced_switches' = d.deb
       /\ long_press_switches' = d.lp
       /\ dial_moving' = dial.moving
       /\ dial_position' = dial.position
       /\ dial_direction' = dial.direction
       /\ dial_log' = LogDial(d.deb, dial)
       /\ keyboard_modifier_keys' = k.mod
       /\ keyboard_keys' = k.kb
       /\ media_keys' = k.media
       /\ sent' = batches
       /\ usb_sends' = k.usb
       /\ events' = [i \in Switches |->
                       (IF Starts(i, Bit(raw, i)) THEN << >> ELSE events[i]) \o per[i]]
       /\ raw_runs' = [i \in Switches |->
                         IF i \in watch THEN ObserveRaw(i, Bit(raw, i)) ELSE raw_runs[i]]
       /\ dropped' = (dropped \/ DropsFrom(k0, calls, 1))
       /\ last_pressed_keys' = d.deb
       /\ last_long_pressed_keys' = d.lp

InitCommon ==
    /\ switch_debounce_states = [i \in Switches |-> [state |-> 1, count |-> 0]]
    /\ debounced_switches = AllReleased
    /\ long_press_switches = AllReleased
    /\ last_pressed_keys = AllReleased
    /\ last_long_pressed_keys = AllReleased
    /\ dial_moving = 0
    /\ dial_position \in { Bit(r, DialA) : r \in snapshots }
    /\ dial_direction = DirectionCCW
    /\ dial_log = << >>
    /\ keyboard_modifier_keys = 0
    /\ keyboard_keys = [i \in 0 .. (KeyboardSlots - 1) |-> 0]
    /\ media_keys = [i \in 0 .. (MediaSlots - 1) |-> 0]
    /\ sent = << >>
    /\ usb_sends = NoSends
    /\ events = [i \in Switches |-> << >>]
    /\ raw_runs = [i \in Switches |-> NoSnapshot]
    /\ dropped = FALSE
    /\ pc = "cli"
    /\ int_enabled = FALSE
    /\ _timer0_fired = 0
    /\ _raw_switches_state = 0      \* static storage, written first by the ISR
    /\ timer0_fired = 0
    /\ raw_switches_state = AllReleased
    /\ firings = 0
    /\ passes = 0
    /\ coalesced = 0

(***************************************************************************)
(* Tick specifications: one processing pass per snapshot                   *)
(***************************************************************************)
Tick ==
    /\ passes < horizon
    /\ \E raw \in snapshots : ProcessPass(raw)
    /\ passes' = passes + 1
    /\ UNCHANGED << envVars, pc, int_enabled, _timer0_fired, _raw_switches_state,
                    timer0_fired, raw_switches_state, firings, coalesced >>

\* S2, the switch with a short-press and a long-press action, over the time
\* a long press takes.
Init ==
    /\ scenario = "long_press"
    /\ InitCommon

Next == Tick

Spec == Init /\ [][Next]_vars

\* Two simple-hold switches, S1 and S5, with the configured table and with
\* a table in which both send the same key.
InitShort ==
    /\ scenario \in {"two_switches", "shared_key"}
    /\ InitCommon

SpecShort == InitShort /\ [][Next]_vars

\* S2 and the four simple-hold switches, which fill media_keys.
InitStuck ==
    /\ scenario = "chord"
    /\ InitCommon

SpecStuck == InitStuck /\ [][Next]_vars

\* The dial resting at a detent from power-up on, both inputs at 0 or both
\* at 1, and S1.
InitRest ==
    /\ scenario \in {"rest_low", "rest_high"}
    /\ InitCommon

SpecRest == InitRest /\ [][Next]_vars

\* S2 with long-press keys and no short-press keys.
InitNull ==
    /\ scenario = "long_only"
    /\ InitCommon

SpecNull == InitNull /\ [][Next]_vars

\* The two lines of the dial, A and B, alone and with the four simple-hold
\* switches that fill media_keys.
InitDial ==
    /\ scenario \in {"dial", "dial_chord"}
    /\ InitCommon

SpecDial == InitDial /\ [][Next]_vars

(***************************************************************************)
(* Key-buffer specification: send_keys called with one key at a time       *)
(***************************************************************************)
KeyRequest ==
    \E code \in codes, pressed \in {0, 1} :
    \E b \in { [keys |-> Keys(<< code, 0 >>), pressed |-> pressed] } :
    \E k \in { send_keys([mod |-> keyboard_modifier_keys, kb |-> keyboard_keys,
                          media |-> media_keys, usb |-> NoSends], b) } :
        /\ keyboard_modifier_keys' = k.mod
        /\ keyboard_keys' = k.kb
        /\ media_keys' = k.media
        /\ sent' = << b >>
        /\ usb_sends' = k.usb
        /\ UNCHANGED << envVars, tickVars, loopVars >>

InitKeys ==
    /\ scenario \in {"keyboard", "media"}
    /\ InitCommon

NextKeys == KeyRequest

SpecKeys == InitKeys /\ [][NextKeys]_vars

(***************************************************************************)
(* Interrupt specification: ISR(TIMER0_OVF_vect) against the loop of run() *)
(***************************************************************************)
\* Faulty variant: the iteration starts without cli().
MainCli_NoCli ==
    /\ pc = "cli"
    /\ timer0_fired' = 0
    /\ raw_switches_state' = AllReleased
    /\ pc' = "while"
    /\ UNCHANGED << envVars, tickVars, keyVars, sent, usb_sends, int_enabled,
                    _timer0_fired, _raw_switches_state, firings, passes, coalesced >>

\* cli(), with the locals of a new iteration
MainCli ==
    /\ pc = "cli"
    /\ int_enabled' = FALSE
    /\ timer0_fired' = 0
    /\ raw_switches_state' = AllReleased
    /\ pc' = "while"
    /\ UNCHANGED << envVars, tickVars, keyVars, sent, usb_sends, _timer0_fired,
                    _raw_switches_state, firings, passes, coalesced >>

\* while (!_timer0_fired)
MainWhile ==
    /\ pc = "while"
    /\ pc' = IF _timer0_fired = 0 THEN "sleep" ELSE "read_flag"
    /\ UNCHANGED << envVars, tickVars, keyVars, sent, usb_sends, int_enabled, _timer0_fired,
                    _raw_switches_state, timer0_fired, raw_switches_state,
                    firings, passes, coalesced >>

\* sei(); sleep_cpu(): no interrupt is taken between the two
MainSleep ==
    /\ pc = "sleep"
    /\ int_enabled' = TRUE
    /\ pc' = "asleep"
    /\ UNCHANGED << envVars, tickVars, keyVars, sent, usb_sends, _timer0_fired,
                    _raw_switches_state, timer0_fired, raw_switches_state,
                    firings, passes, coalesced >>

\* The processor leaves the idle mode for an interrupt other than timer 0.
OtherWake ==
    /\ pc = "asleep"
    /\ pc' = "awake"
    /\ UNCHANGED << envVars, tickVars, keyVars, sent, usb_sends, int_enabled, _timer0_fired,
                    _raw_switches_state, timer0_fired, raw_switches_state,
                    firings, passes, coalesced >>

\* Faulty variant: the loop tests the flag again without cli().
MainAwake_NoCli ==
    /\ pc = "awake"
    /\ pc' = "while"
    /\ UNCHANGED << envVars, tickVars, keyVars, sent, usb_sends, int_enabled,
                    _timer0_fired, _raw_switches_state, timer0_fired,
                    raw_switches_state, firings, passes, coalesced >>

\* sleep_disable(); cli()
MainAwake ==
    /\ pc = "awake"
    /\ int_enabled' = FALSE
    /\ pc' = "while"
    /\ UNCHANGED << envVars, tickVars, keyVars, sent, usb_sends, _timer0_fired,
                    _raw_switches_state, timer0_fired, raw_switches_state,
                    firings, passes, coalesced >>

\* timer0_fired = _timer0_fired
MainReadFlag ==
    /\ pc = "read_flag"
    /\ timer0_fired' = _timer0_fired
    /\ pc' = "read_raw"
    /\ UNCHANGED << envVars, tickVars, keyVars, sent, usb_sends, int_enabled, _timer0_fired,
                    _raw_switches_state, raw_switches_state, firings, passes,
                    coalesced >>

\* raw_switches_state = _raw_switches_state
MainReadRaw ==
    /\ pc = "read_raw"
    /\ raw_switches_state' = _raw_switches_state
    /\ pc' = "clear_flag"
    /\ UNCHANGED << envVars, tickVars, keyVars, sent, usb_sends, int_enabled, _timer0_fired,
                    _raw_switches_state, timer0_fired, firings, passes, coalesced >>

\* Faulty variant: the flag is left set.
MainClearFlag_Keep ==
    /\ pc = "clear_flag"
    /\ pc' = "sei"
    /\ UNCHANGED << envVars, tickVars, keyVars, sent, usb_sends, int_enabled, _timer0_fired,
                    _raw_switches_state, timer0_fired, raw_switches_state,
                    firings, passes, coalesced >>

\* _timer0_fired = 0
MainClearFlag ==
    /\ pc = "clear_flag"
    /\ _timer0_fired' = 0
    /\ pc' = "sei"
    /\ UNCHANGED << envVars, tickVars, keyVars, sent, usb_sends, int_enabled,
                    _raw_switches_state, timer0_fired, raw_switches_state,
                    firings, passes, coalesced >>

\* sei()
MainSei ==
    /\ pc = "sei"
    /\ int_enabled' = TRUE
    /\ pc' = "process"
    /\ UNCHANGED << envVars, tickVars, keyVars, sent, usb_sends, _timer0_fired,
                    _raw_switches_state, timer0_fired, raw_switches_state,
                    firings, passes, coalesced >>

\* if (timer0_fired) { ... }
MainProcess ==
    /\ pc = "process"
    /\ IF timer0_fired # 0
       THEN /\ ProcessPass(raw_switches_state)
            /\ passes' = passes + 1
       ELSE UNCHANGED << tickVars, keyVars, sent, usb_sends, passes >>
    /\ pc' = "cli"
    /\ UNCHANGED << envVars, int_enabled, _timer0_fired, _raw_switches_state,
                    timer0_fired, raw_switches_state, firings, coalesced >>

\* ISR(TIMER0_OVF_vect); it ends the idle mode when the processor sleeps.
TimerISR ==
    /\ int_enabled
    /\ firings < MaxFirings
    /\ _timer0_fired' = 1
    /\ _raw_switches_state' \in snapshots
    /\ firings' = firings + 1
    /\ coalesced' = IF _timer0_fired = 1 THEN coalesced + 1 ELSE coalesced
    /\ pc' = IF pc = "asleep" THEN "awake" ELSE pc
    /\ UNCHANGED << envVars, tickVars, keyVars, sent, usb_sends, int_enabled, timer0_fired,
                    raw_switches_state, passes >>

InitConc ==
    /\ scenario = "interrupt"
    /\ InitCommon

NextConc ==
    \/ MainCli
    \/ MainWhile
    \/ MainSleep
    \/ OtherWake
    \/ MainAwake
    \/ MainReadFlag
    \/ MainReadRaw
    \/ MainClearFlag
    \/ MainSei
    \/ MainProcess
    \/ TimerISR

SpecConc == InitConc /\ [][NextConc]_vars

\* The statements of run(): the processor executes the next one whenever it is
\* not asleep.
MainLoop ==
    \/ MainCli
    \/ MainWhile
    \/ MainSleep
    \/ MainAwake
    \/ MainReadFlag
    \/ MainReadRaw
    \/ MainClearFlag
    \/ MainSei
    \/ MainProcess

SpecConcFair == InitConc /\ [][NextConc]_vars /\ WF_vars(MainLoop)

(***************************************************************************)
(* Properties                                                              *)
(***************************************************************************)
Debounced(i) == Bit(debounced_switches, i)
LongPress(i) == Bit(long_press_switches, i)
Tracked(i) == switch_debounce_states[i].state
Count(i) == switch_debounce_states[i].count

\* C1: in every reachable state, a switch whose long-press bit is 0
\* (long-pressed) has its debounced bit 0 (pressed).
C1_LongPressImpliesPressed ==
    \A i \in Switches : LongPress(i) = 0 => Debounced(i) = 0

\* C1 witness: a switch is long-pressed.
C1_Witness ==
    \E i \in Switches : LongPress(i) = 0 /\ Debounced(i) = 0 /\ Count(i) = LongPressTime

\* C2: a raw level that has not lasted long enough for the count to reach
\* DebounceTickLimit changes neither the debounced bit nor the long-press
\* bit, and a raw line that is (back) at the debounced level never changes
\* the debounced bit.
C2_ShortChangeIgnored ==
    [][\A i \in Switches :
          /\ Count(i)' < DebounceTickLimit =>
                /\ Debounced(i)' = Debounced(i)
                /\ LongPress(i)' = LongPress(i)
          /\ Tracked(i)' = Debounced(i) => Debounced(i)' = Debounced(i)]_vars

\* C2 witness: a line left the debounced level, came back before the count
\* reached DebounceTickLimit, and the debounced bit is still released.
C2_Witness ==
    \E i \in Switches :
        /\ passes > 0
        /\ Tracked(i) = 1
        /\ Count(i) = 0
        /\ Debounced(i) = 1

\* Firings the main loop still has to process: one signalled by the flag,
\* and one copied to the local flag whose pass has not run yet.
Pending ==
    (IF _timer0_fired = 1 THEN 1 ELSE 0)
    + (IF pc \in {"sei", "process"} /\ timer0_fired = 1 THEN 1 ELSE 0)

\* C3 as stated: every firing of the ISR gets a pass of its own, so that
\* whenever the main loop sleeps with the flag clear the number of passes
\* equals the number of firings.
C3_EveryFiringProcessed ==
    (pc = "asleep" /\ _timer0_fired = 0) => passes = firings

\* C3 amended: a firing that finds _timer0_fired already set shares the pass
\* of the firing that set it; every other firing is processed by exactly one
\* pass, none twice: passes plus pending firings equal the firings that
\* found the flag clear.
C3_FiringsProcessedOnceOrMerged ==
    passes + Pending = firings - coalesced

\* C3 witness: the main loop sleeps, every firing accounted for, after a
\* firing was merged into an earlier one.
C3_Witness ==
    /\ pc = "asleep"
    /\ _timer0_fired = 0
    /\ coalesced > 0
    /\ passes > 0
    /\ passes = firings - coalesced

HasShortOnly(i) ==
    ~action_map[i].press_keys.null /\ action_map[i].long_press_keys.null
HasBoth(i) ==
    ~action_map[i].press_keys.null /\ ~action_map[i].long_press_keys.null
ShortPress(i) == press_keys(action_map[i].press_keys)
ShortRelease(i) == release_keys(action_map[i].press_keys)
LongPressed(i) == press_keys(action_map[i].long_press_keys)
LongReleased(i) == release_keys(action_map[i].long_press_keys)

\* The pass just made has committed the released level of switch i.
JustRested(i) ==
    Tracked(i) = 1 /\ Count(i) = DebounceTickLimit /\ Debounced(i) = 1

\* The raw line of switch i showed one pressed run of exactly n snapshots
\* since the switch last rested.
PressedOnceFor(i, n) == raw_runs[i].held = n /\ raw_runs[i].runs = 1

\* C4 as stated: a switch with short-press keys only, pressed for exactly
\* DebounceTickLimit consecutive snapshots and then released until the release
\* is debounced, has had its short-press keys pressed once and released once.
C4_HeldForLimit ==
    \A i \in watch :
        (HasShortOnly(i) /\ JustRested(i) /\ PressedOnceFor(i, DebounceTickLimit))
            => events[i] = << ShortPress(i), ShortRelease(i) >>

\* C4 amended: the same for a line pressed for exactly DebounceTickLimit + 1
\* consecutive snapshots (the snapshot that first shows the press and
\* DebounceTickLimit more): one press of the short-press keys, one later
\* release of them, and no other send_keys call for the switch.
C4_HeldForLimitPlusOne ==
    \A i \in watch :
        (HasShortOnly(i) /\ JustRested(i) /\ PressedOnceFor(i, DebounceTickLimit + 1))
            => events[i] = << ShortPress(i), ShortRelease(i) >>

\* C4 witness: such a press of DebounceTickLimit + 1 snapshots has been
\* released, with one press and one release sent.
C4_Witness ==
    \E i \in watch :
        /\ HasShortOnly(i)
        /\ JustRested(i)
        /\ PressedOnceFor(i, DebounceTickLimit + 1)
        /\ events[i] = << ShortPress(i), ShortRelease(i) >>

\* C5: for a switch with short-press and long-press keys, nothing is sent
\* while it is down and not yet long-pressed, and the pass that commits its
\* release before the long press sends a press and then a release of the
\* short-press keys; these two calls are all that was sent for the switch, so
\* the long-press keys were neither pressed nor released.
C5_QuickReleaseTaps ==
    /\ [](\A i \in Switches :
            (HasBoth(i) /\ Debounced(i) = 0 /\ LongPress(i) = 1) => events[i] = << >>)
    /\ [][\A i \in Switches :
            (HasBoth(i) /\ Debounced(i) = 0 /\ LongPress(i) = 1 /\ Debounced(i)' = 1)
                => /\ events'[i] = << ShortPress(i), ShortRelease(i) >>
                   /\ sent' = << ShortPress(i), ShortRelease(i) >>]_vars

\* C5 witness: a debounced press was released before the long-press time and
\* the tap has been sent.
C5_Witness ==
    \E i \in Switches :
        /\ HasBoth(i)
        /\ JustRested(i)
        /\ events[i] = << ShortPress(i), ShortRelease(i) >>
        /\ sent = << ShortPress(i), ShortRelease(i) >>

\* C6: for a switch with short-press and long-press keys, the pass in which the
\* count reaches LongPressTime for the first time in a hold sends the press of
\* the long-press keys; while the switch is long-pressed that press is the
\* only call made for it (also when the count reaches LongPressTime again
\* after a bounce); the pass that commits the release sends the release of the
\* long-press keys, and the short-press keys are never sent.
C6_LongPressHeld ==
    /\ [](\A i \in Switches :
            (HasBoth(i) /\ LongPress(i) = 0) => events[i] = << LongPressed(i) >>)
    /\ [][\A i \in Switches :
            /\ (HasBoth(i) /\ Tracked(i)' = 0 /\ Count(i)' = LongPressTime
                /\ Count(i) = LongPressTime - 1 /\ LongPress(i) = 1)
                  => /\ sent' = << LongPressed(i) >>
                     /\ events'[i] = << LongPressed(i) >>
            /\ (HasBoth(i) /\ LongPress(i) = 0 /\ Debounced(i)' = 0)
                  => sent' = << >>
            /\ (HasBoth(i) /\ LongPress(i) = 0 /\ Debounced(i)' = 1)
                  => /\ sent' = << LongReleased(i) >>
                     /\ events'[i] = << LongPressed(i), LongReleased(i) >>]_vars

\* C6 witness: a long press has been released.
C6_Witness ==
    \E i \in Switches :
        /\ HasBoth(i)
        /\ JustRested(i)
        /\ events[i] = << LongPressed(i), LongReleased(i) >>

\* C6 second case: a long-pressed switch bounced and its count is about to
\* reach LongPressTime a second time within the hold.
C6_WitnessBounce ==
    \E i \in Switches :
        /\ HasBoth(i)
        /\ LongPress(i) = 0
        /\ Tracked(i) = 0
        /\ Count(i) = LongPressTime - 1

KeyboardIndex == 0 .. (KeyboardSlots - 1)
MediaIndex == 0 .. (MediaSlots - 1)
IsModifier(key) == key >= MODIFIER_KEYS_START /\ key <= MODIFIER_KEYS_END
\* The request a step of the key-buffer specification makes.
Requested == sent'[1].keys.keys[1]
RequestedState == sent'[1].pressed
IsRequest == Len(sent') = 1
StandardRequest == IsRequest /\ ~IsMediaKey(Requested) /\ ~IsModifier(Requested % 256)
MediaRequest == IsRequest /\ IsMediaKey(Requested)
FirstEmpty(buf, index) == CHOOSE i \in index : buf[i] = 0 /\ \A j \in index : buf[j] = 0 => i <= j

\* C7 as stated: a press of a standard key that is not in keyboard_keys is
\* stored in the first empty slot whenever one of the 6 slots is empty, and
\* leaves the 6 slots unchanged when none is.
C7_SixStandardKeys ==
    [][(StandardRequest /\ RequestedState = 1
        /\ \A i \in KeyboardIndex : keyboard_keys[i] # Requested % 256)
          => IF \E i \in KeyboardIndex : keyboard_keys[i] = 0
             THEN keyboard_keys' =
                    [keyboard_keys EXCEPT ![FirstEmpty(keyboard_keys, KeyboardIndex)] =
                                              Requested % 256]
             ELSE keyboard_keys' = keyboard_keys]_vars

\* C8: a press request leaves every slot that holds a key as it is, in
\* keyboard_keys and in media_keys.
C8_PressKeepsHeldKeys ==
    [][(IsRequest /\ RequestedState = 1)
          => /\ \A i \in KeyboardIndex :
                   keyboard_keys[i] # 0 => keyboard_keys'[i] = keyboard_keys[i]
             /\ \A i \in MediaIndex :
                   media_keys[i] # 0 => media_keys'[i] = media_keys[i]]_vars

\* C8 witness: the press of a key that is not in the buffer was requested with
\* every slot of media_keys taken.
C8_Witness ==
    /\ Len(sent) = 1
    /\ sent[1].pressed = 1
    /\ IsMediaKey(sent[1].keys.keys[1])
    /\ \A i \in MediaIndex : media_keys[i] # 0 /\ media_keys[i] # sent[1].keys.keys[1] % 4096

NoDuplicate(buf, index) ==
    \A i, j \in index : (i # j /\ buf[i] # 0) => buf[i] # buf[j]

\* C9: no key code is in two slots of keyboard_keys or in two slots of
\* media_keys, and the press of a key that is in the buffer changes nothing.
C9_NoDuplicateKeys ==
    /\ [](NoDuplicate(keyboard_keys, KeyboardIndex) /\ NoDuplicate(media_keys, MediaIndex))
    /\ [][/\ (StandardRequest /\ RequestedState = 1
              /\ \E i \in KeyboardIndex : keyboard_keys[i] = Requested % 256)
                => UNCHANGED keyVars
          /\ (MediaRequest /\ RequestedState = 1
              /\ \E i \in MediaIndex : media_keys[i] = Requested % 4096)
                => UNCHANGED keyVars]_vars

\* C9 witness: the press of a key was requested while the key was held in a
\* slot behind an empty slot.
C9_Witness ==
    /\ Len(sent) = 1
    /\ sent[1].pressed = 1
    /\ IsMediaKey(sent[1].keys.keys[1])
    /\ \E i, j \in MediaIndex :
          i < j /\ media_keys[i] = 0 /\ media_keys[j] = sent[1].keys.keys[1] % 4096

\* Two different simple-hold switches configured with the same key list.
SharesKey(i, j) ==
    /\ i # j
    /\ HasShortOnly(i)
    /\ HasShortOnly(j)
    /\ action_map[i].press_keys = action_map[j].press_keys
\* The first key of the short-press list of switch i is in its buffer.
FirstKey(i) == action_map[i].press_keys.keys[1]
InBuffer(encoded_key) ==
    IF IsMediaKey(encoded_key)
    THEN \E s \in MediaIndex : media_keys[s] = encoded_key % 4096
    ELSE \E s \in KeyboardIndex : keyboard_keys[s] = encoded_key % 256

\* C10: with two simple-hold switches configured with the same key and both
\* held, the pass that commits the release of either one removes the key from
\* the buffer, also when the other stays held; the later release of the other
\* switch, made with the key absent, leaves the buffers unchanged.
C10_SharedKeyReleasedByEither ==
    [][\A i, j \in Switches :
          SharesKey(i, j) =>
            /\ (Debounced(i) = 0 /\ Debounced(j) = 0 /\ Debounced(i)' = 1)
                  => ~InBuffer(FirstKey(i))'
            /\ (Debounced(i) = 1 /\ Debounced(j) = 0 /\ ~InBuffer(FirstKey(j))
                /\ Debounced(i)' = 1 /\ Debounced(j)' = 1)
                  => /\ sent' = << ShortRelease(j) >>
                     /\ UNCHANGED keyVars]_vars

\* C10 witness: one of the two switches has just been released while the
\* other is held, and the shared key is no longer in the buffer.
C10_Witness ==
    \E i, j \in Switches :
        /\ SharesKey(i, j)
        /\ JustRested(i)
        /\ events[i] = << ShortPress(i), ShortRelease(i) >>
        /\ Debounced(j) = 0
        /\ events[j] = << ShortPress(j) >>
        /\ ~InBuffer(FirstKey(i))

\* C10 second case: the other switch has been released as well, after the first.
C10_WitnessLater ==
    \E i, j \in Switches :
        /\ SharesKey(i, j)
        /\ Rested(i)
        /\ Count(i) > DebounceTickLimit
        /\ events[i] = << ShortPress(i), ShortRelease(i) >>
        /\ JustRested(j)
        /\ events[j] = << ShortPress(j), ShortRelease(j) >>
        /\ sent = << ShortRelease(j) >>

\* The send_keys calls of one rotation event.
RotationCW == << press_keys(DialCWKeys), release_keys(DialCWKeys) >>
RotationCCW == << press_keys(DialCCWKeys), release_keys(DialCCWKeys) >>
\* The dial after the latest pass (n = 0) and after the passes before it.
Logged(n) == dial_log[Len(dial_log) - n]
\* The latest three passes left the debounced dial inputs at (a1, b1), then
\* (a2, b2), then (a3, b3), the first of them settled at position.
DialSequence(position, a1, b1, a2, b2, a3, b3) ==
    /\ Len(dial_log) >= 3
    /\ Logged(2).moving = 0
    /\ Logged(2).position = position
    /\ Logged(2).a = a1 /\ Logged(2).b = b1
    /\ Logged(1).a = a2 /\ Logged(1).b = b2
    /\ Logged(0).a = a3 /\ Logged(0).b = b3
\* The rotation calls of the latest two passes.
RotationsOfSequence == Logged(1).rotations \o Logged(0).rotations

\* C11: from the settled position 0, the debounced sequence (A=0,B=0),
\* (A=1,B=0), (A=1,B=1), one step per pass, makes one rotation event, in the
\* pass that reaches (1,1), and sets dial_position to 1; from the settled
\* position 1, the reverse sequence (1,1), (1,0), (0,0) makes one rotation
\* event of the other direction and sets dial_position to 0.
C11_QuadratureSequence ==
    /\ DialSequence(0, 0, 0, 1, 0, 1, 1)
          => /\ RotationsOfSequence = RotationCW
             /\ Logged(0).rotations = RotationCW
             /\ dial_position = 1
    /\ DialSequence(1, 1, 1, 1, 0, 0, 0)
          => /\ RotationsOfSequence = RotationCCW
             /\ Logged(0).rotations = RotationCCW
             /\ dial_position = 0

\* C11 witness: the forward sequence has been made from the settled position 0.
C11_Witness ==
    /\ DialSequence(0, 0, 0, 1, 0, 1, 1)
    /\ sent = RotationCW
    /\ dial_position = 1

\* C11 second case: the reverse sequence has been made from the settled position 1.
C11_WitnessReverse ==
    /\ DialSequence(1, 1, 1, 1, 0, 0, 0)
    /\ sent = RotationCCW
    /\ dial_position = 0

\* An encoded key is in neither buffer.
Absent(encoded_key) ==
    /\ \A s \in MediaIndex : media_keys[s] # encoded_key % 4096
    /\ \A s \in KeyboardIndex : keyboard_keys[s] # encoded_key % 256

\* C12: after every pass, the keys of DialCWKeys and DialCCWKeys are in
\* neither media_keys nor keyboard_keys, and the pass has made at most one
\* rotation event: no call for the dial, or one press followed by one
\* release of the keys of one direction.
C12_RotationKeysNeverHeld ==
    /\ Absent(KEY_VOLUME_UP)
    /\ Absent(KEY_VOLUME_DOWN)
    /\ Len(dial_log) > 0 => Logged(0).rotations \in { << >>, RotationCW, RotationCCW }

\* C12 witness: a rotation event has been made with every slot of media_keys
\* taken by a held switch.
C12_Witness ==
    /\ Len(dial_log) > 0
    /\ Logged(0).rotations \in { RotationCW, RotationCCW }
    /\ \A s \in MediaIndex : media_keys[s] # 0
    /\ Absent(KEY_VOLUME_UP)
    /\ Absent(KEY_VOLUME_DOWN)

\* The pass being made completes a detent of the dial.
CompletesDetent ==
    /\ dial_moving # 0
    /\ Debounced(DialA)' = Debounced(DialB)'
    /\ Debounced(DialA)' # dial_position

\* C13: usb_keyboard_send and usb_media_send are each called once per
\* send_keys call and never otherwise, and a pass that changes no debounced
\* bit and no long-press bit and completes no detent makes no send_keys call,
\* no transport call, and leaves the modifier mask and both buffers unchanged.
C13_TransportOncePerBatch ==
    /\ [](usb_sends = [keyboard |-> Len(sent), media |-> Len(sent)])
    /\ [][(/\ passes' = passes + 1
           /\ debounced_switches' = debounced_switches
           /\ long_press_switches' = long_press_switches
           /\ ~CompletesDetent)
             => /\ sent' = << >>
                /\ usb_sends' = NoSends
                /\ UNCHANGED keyVars]_vars

\* C13 witness: a pass has made the calls of a rotation event and of switches,
\* one of which found media_keys full, each with its two transport calls.
C13_Witness ==
    /\ Len(dial_log) > 0
    /\ Logged(0).rotations # << >>
    /\ Len(sent) > Len(Logged(0).rotations)
    /\ \A s \in MediaIndex : media_keys[s] # 0
    /\ usb_sends = [keyboard |-> Len(sent), media |-> Len(sent)]

\* C13 second case: a pass that changed nothing has made no call.
C13_WitnessQuiet ==
    /\ passes > 1
    /\ \E i \in Switches : Debounced(i) = 0 /\ Count(i) > DebounceTickLimit
    /\ sent = << >>
    /\ usb_sends = NoSends

HasLongOnly(i) ==
    action_map[i].press_keys.null /\ ~action_map[i].long_press_keys.null

\* C14 as stated: for a switch with long-press keys and no short-press keys,
\* the pass that commits a release made before the long press makes no
\* send_keys call and leaves the modifier mask and both buffers unchanged, and
\* send_keys is never called with a null key list.
C14_QuickReleaseOfLongOnly ==
    /\ [](\A n \in 1 .. Len(sent) : ~sent[n].keys.null)
    /\ [][\A i \in Switches :
            (HasLongOnly(i) /\ Debounced(i) = 0 /\ LongPress(i) = 1 /\ Debounced(i)' = 1)
                => /\ sent' = << >>
                   /\ usb_sends' = NoSends
                   /\ UNCHANGED keyVars]_vars

\* C15: the debounced bit of a switch changes only in a pass in which its
\* count becomes DebounceTickLimit; that pass processes the
\* DebounceTickLimit-th consecutive snapshot equal to the one that first
\* showed the new level, and the debounced bit becomes that level.  The count
\* passes DebounceTickLimit once in a run of equal snapshots, so the bit
\* changes at most once per run.
C15_CommitAtLimit ==
    [][\A i \in Switches :
          Debounced(i)' # Debounced(i) =>
            /\ Count(i) = DebounceTickLimit - 1
            /\ Count(i)' = DebounceTickLimit
            /\ Tracked(i)' = Tracked(i)
            /\ Debounced(i)' = Tracked(i)'
            /\ i \in watch =>
                  /\ raw_runs'[i].level = Debounced(i)'
                  /\ raw_runs'[i].same = DebounceTickLimit + 1]_vars

\* C15 witness: a press has just been committed, by the DebounceTickLimit-th
\* pressed snapshot after the one that first showed the press.
C15_Witness ==
    \E i \in watch :
        /\ Debounced(i) = 0
        /\ Count(i) = DebounceTickLimit
        /\ raw_runs[i].level = 0
        /\ raw_runs[i].same = DebounceTickLimit + 1

\* C16: a pass makes a rotation event if and only if the dial was moving
\* before the pass, the debounced A and B are equal in the pass and A differs
\* from the settled position.  A return to the settled position after moving
\* makes no event and leaves dial_position; equal A and B that differ from
\* the settled position while the dial was not moving make no event and set
\* dial_position to A.
C16_RotationIffDetent ==
    [][passes' = passes + 1 =>
          /\ Logged(0)'.rotations # << >> <=> CompletesDetent
          /\ (/\ dial_moving # 0
              /\ Debounced(DialA)' = Debounced(DialB)'
              /\ Debounced(DialA)' = dial_position)
                => /\ Logged(0)'.rotations = << >>
                   /\ dial_position' = dial_position
                   /\ dial_moving' = 0
          /\ (/\ dial_moving = 0
              /\ Debounced(DialA)' = Debounced(DialB)'
              /\ Debounced(DialA)' # dial_position)
                => /\ Logged(0)'.rotations = << >>
                   /\ dial_position' = Debounced(DialA)'
                   /\ dial_moving' = 0]_vars

\* C16 witness: the dial moved and came back to the settled position, with
\* no rotation event.
C16_Witness ==
    /\ Len(dial_log) >= 2
    /\ Logged(1).moving = 1
    /\ Logged(0).moving = 0
    /\ Logged(0).a = Logged(0).b
    /\ Logged(0).position = Logged(1).position
    /\ Logged(0).rotations = << >>

\* C16 second case: both inputs changed in one pass while the dial was not
\* moving, and the settled position followed with no rotation event.
C16_WitnessResync ==
    /\ Len(dial_log) >= 2
    /\ passes > DebounceTickLimit + 1
    /\ Logged(1).moving = 0
    /\ Logged(0).moving = 0
    /\ Logged(0).position # Logged(1).position
    /\ Logged(0).position = Logged(0).a
    /\ Logged(0).rotations = << >>

\* The positions of the main loop from the test of the flag to sei().
Consuming == {"read_flag", "read_raw", "clear_flag", "sei"}

\* C17: interrupts are disabled from the test of _timer0_fired until the
\* sei() after the flag is cleared, so the ISR runs at none of these
\* positions; the flag is cleared only after it was read as set, together with
\* the snapshot the latest ISR execution wrote; the local copy is kept until
\* the pass, and the pass processes it.
C17_ConsumeIsAtomic ==
    /\ [](pc \in Consuming \cup {"while", "sleep"} => ~int_enabled)
    /\ [][/\ firings' # firings => pc \notin Consuming
          /\ (pc = "clear_flag" /\ pc' = "sei")
                => /\ firings > 0
                   /\ _timer0_fired = 1
                   /\ timer0_fired = 1
                   /\ raw_switches_state = _raw_switches_state
          /\ (pc \in {"clear_flag", "sei"} /\ pc' # pc)
                => /\ raw_switches_state' = raw_switches_state
                   /\ timer0_fired' = timer0_fired
          /\ passes' # passes
                => \A i \in watch : raw_runs'[i].level = Bit(raw_switches_state, i)]_vars

\* C17 witness: the main loop has consumed a firing, its local snapshot being
\* the one the latest ISR execution wrote, after an earlier snapshot was
\* overwritten unconsumed.
C17_Witness ==
    /\ pc = "sei"
    /\ timer0_fired = 1
    /\ _timer0_fired = 0
    /\ raw_switches_state = _raw_switches_state
    /\ coalesced > 0

\* C18: the main loop never sleeps with _timer0_fired set: it goes to sleep
\* only from the test that found the flag clear, with interrupts disabled in
\* between; and, the main loop being executed whenever it is not asleep, a
\* set flag is always followed by a pass, which leaves the flag of that
\* firing cleared.
C18_NoLostWakeup ==
    /\ [](pc = "asleep" => _timer0_fired = 0)
    /\ [][(pc' = "asleep" /\ pc # "asleep")
            => pc = "sleep" /\ ~int_enabled /\ _timer0_fired = 0]_vars
    /\ [][passes' # passes => timer0_fired = 1 /\ pc = "process"]_vars
    /\ \A n \in 0 .. MaxFirings :
          (_timer0_fired = 1 /\ passes = n) ~> (passes > n)

\* C18 witness: the main loop sleeps again after the ISR has woken it more
\* than once and every firing has had its pass.
C18_Witness ==
    /\ pc = "asleep"
    /\ _timer0_fired = 0
    /\ firings > 1
    /\ coalesced = 0
    /\ passes = firings

\* C19: after every pass that leaves all seven debounced bits at 1
\* (released), the modifier mask is 0 and every slot of keyboard_keys and of
\* media_keys is empty.
C19_NoStuckKeys ==
    debounced_switches = AllReleased =>
        /\ keyboard_modifier_keys = 0
        /\ \A s \in KeyboardIndex : keyboard_keys[s] = 0
        /\ \A s \in MediaIndex : media_keys[s] = 0

\* C19 witness: every switch has been released again after a press was
\* dropped because media_keys was full, and the buffers are empty.
C19_Witness ==
    /\ dropped
    /\ debounced_switches = AllReleased
    /\ \A i \in Chord \cup {0} : Len(events[i]) = 2
    /\ \A s \in MediaIndex : media_keys[s] = 0

\* C20: with the raw dial inputs equal to each other and constant from
\* power-up on, no pass makes a rotation event or finds the dial moving, and
\* every pass leaves dial_position equal to the debounced A bit: also while
\* debounced_switches still shows A = B = 1 for inputs that read 0.
C20_NoRotationAtStartup ==
    passes > 0 =>
        /\ Logged(0).rotations = << >>
        /\ \A n \in 1 .. Len(sent) :
              sent[n].keys \notin { DialCWKeys, DialCCWKeys }
        /\ dial_moving = 0
        /\ dial_position = Debounced(DialA)
        /\ Absent(KEY_VOLUME_UP)
        /\ Absent(KEY_VOLUME_DOWN)

\* C20 witness: the inputs read 0 from power-up on, and the debounced bits,
\* which started at 1, have followed, as has dial_position.
C20_Witness ==
    /\ scenario = "rest_low"
    /\ passes > DebounceTickLimit + 1
    /\ Debounced(DialA) = 0
    /\ Debounced(DialB) = 0
    /\ dial_position = 0
    /\ dial_moving = 0

\* C20 second case: the passes before the debounced bits follow, in which
\* dial_position, read as 0 from the pin, is set to the debounced 1.
C20_WitnessBefore ==
    /\ scenario = "rest_low"
    /\ passes = 1
    /\ Debounced(DialA) = 1
    /\ dial_position = 1

\* C21: the count of every switch is between 0 and LongPressTime in every
\* state; a pass whose snapshot shows a level other than the tracked one sets
\* the count to 0, a pass whose snapshot shows the tracked level adds 1 to a
\* count below LongPressTime and leaves a count of LongPressTime as it is.
C21_CountSaturates ==
    /\ [](\A i \in Switches : Count(i) \in 0 .. LongPressTime)
    /\ [][passes' = passes + 1 =>
            \A i \in Switches :
                /\ Tracked(i)' # Tracked(i) => Count(i)' = 0
                /\ (Tracked(i)' = Tracked(i) /\ Count(i) < LongPressTime)
                      => Count(i)' = Count(i) + 1
                /\ (Tracked(i)' = Tracked(i) /\ Count(i) = LongPressTime)
                      => Count(i)' = LongPressTime]_vars

\* C21 witness: the count of a line that kept its level has stayed at
\* LongPressTime through passes after the one that brought it there, while the
\* count of a switch whose level changed is back near 0.
C21_Witness ==
    \E i, j \in Switches :
        /\ Tracked(i) = 1
        /\ Count(i) = LongPressTime
        /\ passes > LongPressTime + DebounceTickLimit
        /\ Count(j) < DebounceTickLimit

====
